---- MODULE Spec2Model ----
(***************************************************************************)
(* Rule 628 scanner (src/app/app.py): the position-preserving sanitizer,   *)
(* the three statement passes, the table matcher, the finding builder and  *)
(* the two endpoints.  Texts are sequences of one-character strings;       *)
(* offsets are 0-based as in the source, so the character at offset k of   *)
(* text t is t[k + 1].                                                     *)
(***************************************************************************)
EXTENDS Integers, Sequences, FiniteSets, TLC

VARIABLES
  unit,     \* the request body of POST /remediate
  units,    \* the request body of POST /remediate-array
  single,   \* the response of POST /remediate
  batch,    \* the response of POST /remediate-array
  src,      \* rm_strings_and_comments(unit.code)
  src2,     \* rm_strings_and_comments(src)
  matches,  \* the (span, table) pairs scan_unit iterated over for unit
  called    \* the operations applied so far

vars == <<unit, units, single, batch, src, src2, matches, called>>

(***************************************************************************)
(* Characters                                                              *)
(***************************************************************************)
UpperCase == <<"A","B","C","D","E","F","G","H","I","J","K","L","M",
               "N","O","P","Q","R","S","T","U","V","W","X","Y","Z">>

LowerCase == <<"a","b","c","d","e","f","g","h","i","j","k","l","m",
               "n","o","p","q","r","s","t","u","v","w","x","y","z">>

Digits == {"0","1","2","3","4","5","6","7","8","9"}

UpperSet == {UpperCase[i] : i \in 1..26}

LowerSet == {LowerCase[i] : i \in 1..26}

\* str.lower() on one character (ASCII letters).
Lower(c) ==
  IF c \in UpperSet
    THEN LowerCase[CHOOSE i \in 1..26 : UpperCase[i] = c]
    ELSE c

\* str.upper() on one character (ASCII letters).
Upper(c) ==
  IF c \in LowerSet
    THEN UpperCase[CHOOSE i \in 1..26 : LowerCase[i] = c]
    ELSE c

\* the regex class \w
IsWord(c) == c \in UpperSet \cup LowerSet \cup Digits \cup {"_"}

\* the regex class \s
IsSpace(c) == c \in {" ", "\n", "\r", "\t", "\f"}

\* the characters at which str.splitlines breaks a line
IsLineBreak(c) == c \in {"\n", "\r", "\f"}

Max(a, b) == IF a >= b THEN a ELSE b

Min(a, b) == IF a <= b THEN a ELSE b

\* text[a:b] for 0 <= a, b
Slice(t, a, b) == SubSeq(t, a + 1, Min(b, Len(t)))

Spaces(n) == [i \in 1..n |-> " "]

(***************************************************************************)
(* Helpers (app.py 41-58)                                                  *)
(***************************************************************************)
TARGET_TABLES == { <<"t","8","8","1">>, <<"t","8","8","1","t">>, <<"t","8","8","2","g">> }

\* the accessor METHOD_MAP names for a table
METHOD_MAP(tb) ==
  CASE tb = <<"t","8","8","1">> -> "cl_fins_acdoc_util=>get_t881_emu"
    [] tb = <<"t","8","8","1","t">> -> "cl_fins_acdoc_util=>get_t881t_emu"
    [] tb = <<"t","8","8","2","g">> -> "cl_fins_acdoc_util=>get_t882g_emu"

\* the least and the greatest element of a non-empty set of numbers
MinOf(S) == CHOOSE x \in S : \A y \in S : x <= y

MaxOf(S) == CHOOSE x \in S : \A y \in S : y <= x

\* text.count("\n", 0, off) + 1
line_of_offset(text, off) ==
  Cardinality({i \in 1..Min(off, Len(text)) : text[i] = "\n"}) + 1

RECURSIVE EscapeNewlines(_)
RECURSIVE EscapeFrom(_, _)
\* str.replace("\n", "\\n"): the text up to the newline at index i, the escape,
\* and the rest
EscapeFrom(t, i) ==
  SubSeq(t, 1, i - 1) \o <<"\\", "n">> \o EscapeNewlines(SubSeq(t, i + 1, Len(t)))

EscapeNewlines(t) ==
  IF \A i \in 1..Len(t) : t[i] # "\n" THEN t
  ELSE EscapeFrom(t, MinOf({i \in 1..Len(t) : t[i] = "\n"}))

SnippetWindow == 140

snippet_at(text, start, end) ==
  EscapeNewlines(Slice(text, Max(0, start - SnippetWindow),
                             Min(Len(text), end + SnippetWindow)))

canon(s) == [i \in 1..Len(s) |-> Lower(s[i])]

UpperText(s) == [i \in 1..Len(s) |-> Upper(s[i])]

(***************************************************************************)
(* Sanitizer (app.py 60-100)                                               *)
(***************************************************************************)
\* s ends a line at index i with "\r\n"
CrLfAt(s, i) == s[i] = "\r" /\ i < Len(s) /\ s[i + 1] = "\n"

\* the index of the last character of a line whose first break is at index i
BreakEnd(s, i) == IF CrLfAt(s, i) THEN i + 1 ELSE i

\* 1-based index of the last character of the first line of s:
\* str.splitlines(keepends=True) ends a line after "\n", "\r", "\r\n", "\f".
LineEnd(s) ==
  IF \A i \in 1..Len(s) : ~IsLineBreak(s[i]) THEN Len(s)
  ELSE BreakEnd(s, MinOf({i \in 1..Len(s) : IsLineBreak(s[i])}))

RECURSIVE SplitLines(_)
\* the first line of s, which ends at index e, and the lines of the rest
SplitAt(s, e) == <<SubSeq(s, 1, e)>> \o SplitLines(SubSeq(s, e + 1, Len(s)))

SplitLines(s) == IF s = <<>> THEN <<>> ELSE SplitAt(s, LineEnd(s))

\* lines 96-98 for the characters at a..z, none of them a quote or the start
\* of a comment: blanked inside a literal, kept outside
Plain(buf, a, z, in_str) ==
  [j \in 1..Len(buf) |-> IF in_str /\ a <= j /\ j <= z THEN " " ELSE buf[j]]

\* lines 93-95: blank from index j to the end of the line's buffer
BlankFrom(buf, j) == [x \in 1..Len(buf) |-> IF x >= j THEN " " ELSE buf[x]]

RECURSIVE ScanLine(_, _, _)
\* the loop iteration of lines 78-95 at a quote or a comment marker, at index j
ScanAt(b, j, in_str) ==
  IF b[j] = "'" THEN
    IF in_str THEN
      IF j + 1 <= Len(b) /\ b[j + 1] = "'"
        THEN ScanLine(b, j + 2, in_str)
        ELSE ScanLine(b, j + 1, FALSE)
    ELSE ScanLine(b, j + 1, TRUE)
  ELSE BlankFrom(b, j)

\* the iterations up to the first of the indices stops, then that one
ScanTo(buf, i, in_str, stops) ==
  IF stops = {} THEN Plain(buf, i, Len(buf), in_str)
  ELSE ScanAt(Plain(buf, i, MinOf(stops) - 1, in_str), MinOf(stops), in_str)

\* the while loop of lines 77-98 over one line's buffer, from index i (1-based)
\* in state in_str.  The iterations up to the next quote or comment marker
\* only blank (lines 96-97) or skip (line 98), and are taken in one step.
ScanLine(buf, i, in_str) ==
  ScanTo(buf, i, in_str,
         {j \in i..Len(buf) : buf[j] = "'" \/ (buf[j] = "\"" /\ ~in_str)})

\* SanitizeLine without the test of line 71
SanitizeLine_NoLineComment(ln) == ScanLine(ln, 1, FALSE)

\* lines 71-99 for one line ln (its terminator included)
SanitizeLine(ln) ==
  IF ln[1] = "*" THEN Spaces(Len(ln)) ELSE ScanLine(ln, 1, FALSE)

RECURSIVE JoinLines(_)
JoinLines(ls) ==
  IF ls = <<>> THEN <<>> ELSE SanitizeLine(Head(ls)) \o JoinLines(Tail(ls))

rm_strings_and_comments(s) == JoinLines(SplitLines(s))

(***************************************************************************)
(* Regex building blocks (app.py 105-123).  A pattern is an operator of a  *)
(* text and a start offset that gives the match the backtracking engine    *)
(* finds there, or NoMatch.                                                *)
(***************************************************************************)
NoMatch == [end |-> -1]

\* \b at offset k
WordBoundary(t, k) ==
  (k > 0 /\ IsWord(t[k])) # (k < Len(t) /\ IsWord(t[k + 1]))

\* a literal, case-insensitively ((?i)), at offset k; lit is lower case
LitAt(t, k, lit) ==
  /\ k + Len(lit) <= Len(t)
  /\ \A i \in 1..Len(lit) : Lower(t[k + i]) = lit[i]

\* one optional character c at offset k: the offset after it
OptChar(t, k, c) == IF k < Len(t) /\ t[k + 1] = c THEN k + 1 ELSE k

\* the offset after the longest \s* run at offset k
SkipSpace(t, k) ==
  IF \A j \in k..(Len(t) - 1) : IsSpace(t[j + 1]) THEN Max(k, Len(t))
  ELSE MinOf({j \in k..(Len(t) - 1) : ~IsSpace(t[j + 1])})

\* [^.]*(?:\.|$) from offset k: the end of the text taken for a terminator
FindDot_OrEndOfText(t, k) ==
  IF \A j \in k..(Len(t) - 1) : t[j + 1] # "." THEN Len(t) - 1
  ELSE MinOf({j \in k..(Len(t) - 1) : t[j + 1] = "."})

\* [^.]*\. from offset k: the offset of the first "." at or after k, or -1
FindDot(t, k) ==
  IF \A j \in k..(Len(t) - 1) : t[j + 1] # "." THEN -1
  ELSE MinOf({j \in k..(Len(t) - 1) : t[j + 1] = "."})

\* [^.]*\. from offset k: the match that ends after the first ".", if any
ToDot(d) == IF d < 0 THEN NoMatch ELSE [end |-> d + 1]

kwSELECT == <<"s","e","l","e","c","t">>

kwOPEN == <<"o","p","e","n">>

kwCURSOR == <<"c","u","r","s","o","r">>

kwFROM == <<"f","r","o","m">>

kwJOIN == <<"j","o","i","n">>

kwINSERT == <<"i","n","s","e","r","t">>

kwUPDATE == <<"u","p","d","a","t","e">>

kwMODIFY == <<"m","o","d","i","f","y">>

kwDELETE == <<"d","e","l","e","t","e">>

\* (?is)\bSELECT\b[^.]*\.
STMT_SELECT_RE(t, k) ==
  IF WordBoundary(t, k) /\ LitAt(t, k, kwSELECT) /\ WordBoundary(t, k + 6)
    THEN ToDot(FindDot(t, k + 6))
    ELSE NoMatch

\* \s+CURSOR\b[^.]*\. where the \s+ run from offset a ends at offset p
CursorAfter(t, a, p) ==
  IF p > a /\ LitAt(t, p, kwCURSOR) /\ WordBoundary(t, p + 6)
    THEN ToDot(FindDot(t, p + 6))
    ELSE NoMatch

\* (?is)\bOPEN\s+CURSOR\b[^.]*\.
STMT_OPEN_CURSOR_RE(t, k) ==
  IF WordBoundary(t, k) /\ LitAt(t, k, kwOPEN)
    THEN CursorAfter(t, k + 4, SkipSpace(t, k + 4))
    ELSE NoMatch

\* (?:t881|t881t|t882g) at offset q: the shorter name tried first
TABLE_NAME_RE_ShortFirst(t, q) ==
  IF LitAt(t, q, <<"t","8","8","1">>)
    THEN <<q + 4>> \o (IF LitAt(t, q + 4, <<"t">>) THEN <<q + 5>> ELSE <<>>)
  ELSE IF LitAt(t, q, <<"t","8","8","2","g">>) THEN <<q + 5>>
  ELSE <<>>

\* (?:t881t?|t882g) at offset q: the end offsets the engine tries, in order
TABLE_NAME_RE(t, q) ==
  IF LitAt(t, q, <<"t","8","8","1">>)
    THEN (IF LitAt(t, q + 4, <<"t">>) THEN <<q + 5>> ELSE <<>>) \o <<q + 4>>
  ELSE IF LitAt(t, q, <<"t","8","8","2","g">>) THEN <<q + 5>>
  ELSE <<>>

\* \)\b at offset j
ParenThenBoundary(t, j) ==
  j < Len(t) /\ t[j + 1] = ")" /\ WordBoundary(t, j + 1)

\* \)?\b at offset j, the parenthesis tried first: the end of the match
TailEndAt(t, j) == IF ParenThenBoundary(t, j) THEN j + 1 ELSE j

\* \s*\)?\b after a table name that ends at offset e, where ok are the lengths
\* of the \s* run at which \)?\b matches: the longest is tried first
TailPick(t, ok) == IF ok = {} THEN -1 ELSE TailEndAt(t, MaxOf(ok))

\* \s*\)?\b after a table name that ends at offset e: the end of the match the
\* engine finds, or -1
TableTokenTail(t, e) ==
  TailPick(t, {j \in e..SkipSpace(t, e) :
                 ParenThenBoundary(t, j) \/ WordBoundary(t, j)})

\* the FROM/JOIN match whose table group is t[q:e]
ReadMatch(t, q, e) ==
  [end |-> TableTokenTail(t, e), table |-> Slice(t, q, e),
   tstart |-> q, tend |-> e]

\* the first of the table ends at offset q after which the tail matches
ReadPick(t, q, ends) ==
  IF \A i \in 1..Len(ends) : TableTokenTail(t, ends[i]) < 0 THEN NoMatch
  ELSE ReadMatch(t, q, ends[MinOf({i \in 1..Len(ends) :
                                     TableTokenTail(t, ends[i]) >= 0})])

\* @?\s*\(?\s* from offset p: the offset where the table name must start
TableTokenStart(t, p) ==
  SkipSpace(t, OptChar(t, SkipSpace(t, OptChar(t, p, "@")), "("))

\* \s+{TABLE_TOKEN}\b where the \s+ run from offset a ends at offset p
ReadOperand(t, a, p) ==
  IF p > a
    THEN ReadPick(t, TableTokenStart(t, p), TABLE_NAME_RE(t, TableTokenStart(t, p)))
    ELSE NoMatch

\* (?is)\b(?:FROM|JOIN)\s+@?\s*\(?\s*(?P<table>t881t?|t882g)\s*\)?\b
FROM_OR_JOIN_TARGET_RE(t, k) ==
  IF WordBoundary(t, k) /\ (LitAt(t, k, kwFROM) \/ LitAt(t, k, kwJOIN))
    THEN ReadOperand(t, k + 4, SkipSpace(t, k + 4))
    ELSE NoMatch

\* the write match whose table group is t[q:e]: \s*(?:\)\s*)?[^.]*\. runs to
\* the first "." after the table name
WriteMatch(t, q, e) ==
  [end |-> FindDot(t, e) + 1, table |-> Slice(t, q, e), tstart |-> q, tend |-> e]

\* the first of the table ends at offset q after which a "." follows
WritePick(t, q, ends) ==
  IF \A i \in 1..Len(ends) : FindDot(t, ends[i]) < 0 THEN NoMatch
  ELSE WriteMatch(t, q, ends[MinOf({i \in 1..Len(ends) : FindDot(t, ends[i]) >= 0})])

\* (?P<table..>t881t?|t882g)\s*(?:\)\s*)?[^.]*\. at offset q
WriteTable(t, q) == WritePick(t, q, TABLE_NAME_RE(t, q))

\* a first alternative, and where it fails the table name at offset p
OrTableAt(first, t, p) == IF first.end >= 0 THEN first ELSE WriteTable(t, p)

\* (?:@?\s*\(\s*)? from offset p, where b is the offset after @?\s*: with the
\* optional group taken first, then without it
WriteGroup(t, p, b) ==
  IF b < Len(t) /\ t[b + 1] = "("
    THEN OrTableAt(WriteTable(t, SkipSpace(t, b + 1)), t, p)
    ELSE WriteTable(t, p)

\* (?:@?\s*\(\s*)?(?P<table..>t881t?|t882g)\s*(?:\)\s*)?[^.]*\. at offset p
WriteOperand(t, p) == WriteGroup(t, p, SkipSpace(t, OptChar(t, p, "@")))

\* a first alternative, and where it fails the operand at offset p
OrOperandAt(first, t, p) == IF first.end >= 0 THEN first ELSE WriteOperand(t, p)

\* (?:FROM\s+)? from offset p, where f is the offset after FROM\s*: with FROM
\* taken first, then without it
DeleteFrom(t, p, f) ==
  IF LitAt(t, p, kwFROM) /\ f > p + 4
    THEN OrOperandAt(WriteOperand(t, f), t, p)
    ELSE WriteOperand(t, p)

\* \s+<...> where the \s+ run from offset a ends at offset p
InsertAfter(t, a, p) == IF p > a THEN WriteOperand(t, p) ELSE NoMatch

DeleteAfter(t, a, p) ==
  IF p > a THEN DeleteFrom(t, p, SkipSpace(t, p + 4)) ELSE NoMatch

\* the named groups of WRITE_STMT_RE: the group of the alternative that did
\* not take part is <<>>
Table1(m) ==
  IF m.end < 0 THEN NoMatch
  ELSE [end |-> m.end, table1 |-> m.table, table2 |-> <<>>,
        tstart |-> m.tstart, tend |-> m.tend]

Table2(m) ==
  IF m.end < 0 THEN NoMatch
  ELSE [end |-> m.end, table1 |-> <<>>, table2 |-> m.table,
        tstart |-> m.tstart, tend |-> m.tend]

\* WRITE_STMT_RE: \b(INSERT|UPDATE|MODIFY)\s+<operand> | \bDELETE\s+(?:FROM\s+)?<operand>
WRITE_STMT_RE(t, k) ==
  IF ~WordBoundary(t, k) THEN NoMatch
  ELSE IF LitAt(t, k, kwINSERT) \/ LitAt(t, k, kwUPDATE) \/ LitAt(t, k, kwMODIFY)
    THEN Table1(InsertAfter(t, k + 6, SkipSpace(t, k + 6)))
  ELSE IF LitAt(t, k, kwDELETE)
    THEN Table2(DeleteAfter(t, k + 6, SkipSpace(t, k + 6)))
  ELSE NoMatch

\* one compiled pattern applied at offset k
MatchAt(re, t, k) ==
  CASE re = "STMT_SELECT_RE" -> STMT_SELECT_RE(t, k)
    [] re = "STMT_OPEN_CURSOR_RE" -> STMT_OPEN_CURSOR_RE(t, k)
    [] re = "FROM_OR_JOIN_TARGET_RE" -> FROM_OR_JOIN_TARGET_RE(t, k)
    [] re = "WRITE_STMT_RE" -> WRITE_STMT_RE(t, k)

RECURSIVE FindIterFrom(_, _)
\* the match at offset k, then the matches from its end on
FindIterAt(at, k) == <<at[k] @@ [start |-> k]>> \o FindIterFrom(at, at[k].end)

\* re.finditer from offset pos, where at[k] is the pattern applied at offset
\* k: the leftmost match at or after pos, then on from its end
FindIterFrom(at, pos) ==
  IF \A k \in DOMAIN at : k < pos \/ at[k].end < 0 THEN <<>>
  ELSE FindIterAt(at, MinOf({k \in DOMAIN at : k >= pos /\ at[k].end >= 0}))

finditer(re, t) == FindIterFrom([k \in 0..(Len(t) - 1) |-> MatchAt(re, t, k)], 0)

\* line 128
IsTargetMatch(m) == canon(m.table) \in TARGET_TABLES

\* line 129, with the offsets of the table group beside those of the match
TableHits(hits) ==
  [i \in 1..Len(hits) |->
     [tb |-> canon(hits[i].table), tstart |-> hits[i].start, tend |-> hits[i].end,
      gstart |-> hits[i].tstart, gend |-> hits[i].tend]]

\* app.py 125-129: (table, start, end) of every FROM/JOIN target in stmt
find_tables_in_select(stmt) ==
  TableHits(SelectSeq(finditer("FROM_OR_JOIN_TARGET_RE", stmt), IsTargetMatch))

(***************************************************************************)
(* Suggestions and messages (app.py 134-173, 188-191, 212-215, 236).  A    *)
(* text built from a template is the record of the template and its        *)
(* parameters.                                                             *)
(***************************************************************************)
suggestion_for_read(table) ==
  [template |-> "Replace direct read of {table} with {method}.\n\nExample:\n{example}",
   table |-> UpperText(table), method |-> METHOD_MAP(table), example |-> table]

suggestion_for_write(table) ==
  [template |-> "Direct writes to {table} are disallowed in S/4HANA. These tables are obsolete customizing; redesign to use the supported configuration/APIs and remove the DML.",
   table |-> UpperText(table)]

MessageFor(cls, tb) ==
  CASE cls = "SELECT" ->
         [template |-> "Direct read from {table} detected in SELECT. Use {method} instead of SELECT ... FROM {table}.",
          table |-> UpperText(tb), method |-> METHOD_MAP(tb)]
    [] cls = "OPEN CURSOR" ->
         [template |-> "Direct read from {table} via OPEN CURSOR FOR SELECT. Use {method} instead.",
          table |-> UpperText(tb), method |-> METHOD_MAP(tb)]
    [] cls = "WRITE" ->
         [template |-> "Disallowed write to {table} detected. Avoid DML on obsolete tables.",
          table |-> UpperText(tb)]

(***************************************************************************)
(* Scanner (app.py 178-254)                                                *)
(***************************************************************************)
RECURSIVE Flatten(_)
Flatten(ss) == IF ss = <<>> THEN <<>> ELSE Head(ss) \o Flatten(Tail(ss))

\* the iterations of the inner loop (lines 187, 211) for the span s0..s1
InSpan(cls, s0, s1, tms) ==
  [j \in 1..Len(tms) |->
     [cls |-> cls, s0 |-> s0, s1 |-> s1, tb |-> tms[j].tb,
      tstart |-> s0 + tms[j].gstart, tend |-> s0 + tms[j].gend]]

\* the iterations of the outer loop (lines 184-186, 208-210) over spans
OverSpans(cls, s, spans) ==
  Flatten([i \in 1..Len(spans) |->
             InSpan(cls, spans[i].start, spans[i].end,
                    find_tables_in_select(Slice(s, spans[i].start, spans[i].end)))])

\* the iterations of a read loop: for every span of the statement pattern re,
\* every table find_tables_in_select yields
ReadPass(cls, re, s) == OverSpans(cls, s, finditer(re, s))

\* line 234
WriteTableOf(m) == canon(IF m.table1 # <<>> THEN m.table1 ELSE m.table2)

\* line 235
IsWriteHit(m) == WriteTableOf(m) # <<>> /\ WriteTableOf(m) \in TARGET_TABLES

WriteHits(hits) ==
  [i \in 1..Len(hits) |->
     [cls |-> "WRITE", s0 |-> hits[i].start, s1 |-> hits[i].end,
      tb |-> WriteTableOf(hits[i]), tstart |-> hits[i].tstart, tend |-> hits[i].tend]]

\* the iterations of the write loop that pass the test of line 235
WritePass(s) == WriteHits(SelectSeq(finditer("WRITE_STMT_RE", s), IsWriteHit))

\* the three loops with the write loop first
ScanMatches_WriteFirst(s) ==
  WritePass(s)
    \o ReadPass("SELECT", "STMT_SELECT_RE", s)
    \o ReadPass("OPEN CURSOR", "STMT_OPEN_CURSOR_RE", s)

\* the three loops of scan_unit over the sanitized text s, in program order
ScanMatches(s) ==
  ReadPass("SELECT", "STMT_SELECT_RE", s)
    \o ReadPass("OPEN CURSOR", "STMT_OPEN_CURSOR_RE", s)
    \o WritePass(s)

\* findings.append({...}) of lines 192-205, 216-229, 237-250
Finding(u, s, m) ==
  [pgm_name |-> u.pgm_name, inc_name |-> u.inc_name, type |-> u.type,
   name |-> u.name, start_line |-> u.start_line, end_line |-> u.end_line,
   issue_type |-> IF m.cls = "WRITE" THEN "DisallowedWrite" ELSE "DirectRead",
   severity |-> IF m.cls = "WRITE" THEN "warning" ELSE "info",
   line |-> line_of_offset(s, m.s0),
   message |-> MessageFor(m.cls, m.tb),
   suggestion |-> IF m.cls = "WRITE" THEN suggestion_for_write(m.tb)
                  ELSE suggestion_for_read(m.tb),
   snippet |-> snippet_at(u.code, m.s0, m.s1)]

\* lines 252-254 with the findings of the iterations ms
WithFindingsOf(u, s, ms) ==
  u @@ [rule628_findings |-> [i \in 1..Len(ms) |-> Finding(u, s, ms[i])]]

\* lines 181-254 over the sanitized text s
ScanSanitized(u, s) == WithFindingsOf(u, s, ScanMatches(s))

scan_unit(u) == ScanSanitized(u, rm_strings_and_comments(u.code))

(***************************************************************************)
(* Endpoints (app.py 259-270)                                              *)
(***************************************************************************)
\* line 264
HasFindings(res) == res.rule628_findings # <<>>

\* scan_rule_array without the test of line 264
scan_rule_array_NoFilter(us) == [i \in 1..Len(us) |-> scan_unit(us[i])]

scan_rule_array(us) ==
  SelectSeq([i \in 1..Len(us) |-> scan_unit(us[i])], HasFindings)

scan_rule_single(u) == scan_unit(u)

(***************************************************************************)
(* Requests                                                                *)
(***************************************************************************)
\* a Unit (lines 29-36) with the given program name and code
MkUnit(pgm, code) ==
  [pgm_name |-> pgm, inc_name |-> "INC", type |-> "FORM", name |-> "",
   start_line |-> 0, end_line |-> 0, code |-> code]

RECURSIVE Texts(_, _)
\* the concatenations of at most n pieces
Texts(pieces, n) ==
  IF n = 0 THEN {<<>>}
  ELSE LET shorter == Texts(pieces, n - 1)
       IN  shorter \cup {p \o t : p \in shorter, t \in pieces}

InitWith(codes) ==
  /\ unit \in {MkUnit("P1", c) : c \in codes}
  /\ units = <<>>
  /\ single = <<>>
  /\ batch = <<>>
  /\ src = <<>>
  /\ src2 = <<>>
  /\ matches = <<>>
  /\ called = {}

(***************************************************************************)
(* Operations                                                              *)
(***************************************************************************)
\* rm_strings_and_comments applied to the unit's code
Sanitize ==
  /\ "sanitize" \notin called
  /\ src' = rm_strings_and_comments(unit.code)
  /\ called' = called \cup {"sanitize"}
  /\ UNCHANGED <<unit, units, single, batch, src2, matches>>

\* rm_strings_and_comments applied to its own output
Resanitize ==
  /\ "sanitize" \in called
  /\ "resanitize" \notin called
  /\ src2' = rm_strings_and_comments(src)
  /\ called' = called \cup {"resanitize"}
  /\ UNCHANGED <<unit, units, single, batch, src, matches>>

\* POST /remediate
ScanRuleSingle ==
  /\ "single" \notin called
  /\ src' = rm_strings_and_comments(unit.code)
  /\ matches' = ScanMatches(src')
  /\ single' = WithFindingsOf(unit, src', matches')
  /\ called' = called \cup {"single"}
  /\ UNCHANGED <<unit, units, batch, src2>>

\* POST /remediate-array
ScanRuleArray ==
  /\ "batch" \notin called
  /\ batch' = scan_rule_array(units)
  /\ called' = called \cup {"batch"}
  /\ UNCHANGED <<unit, units, single, src, src2, matches>>

(***************************************************************************)
(* Sanitizer on every short text over the characters it distinguishes      *)
(***************************************************************************)
MaxLen == 5

SanChars == { <<"a">>, <<"'">>, <<"\"">>, <<"*">>, <<"\n">>, <<"\r">> }

InitSan == InitWith(Texts(SanChars, MaxLen))

NextSan == Sanitize \/ Resanitize

SpecSan == InitSan /\ [][NextSan]_vars

(***************************************************************************)
(* Units made of whole source lines: comment lines, a line that ends       *)
(* inside a string literal, and statements of each class                   *)
(***************************************************************************)
MaxLines == 3

\* * note\n
LnComment == <<"*"," ","n","o","t","e","\n">>

\* x = 'a\n
LnOpenString == <<"x"," ","="," ","'","a","\n">>

\* y = 1. " c\n
LnInlineComment == <<"y"," ","="," ","1","."," ","\""," ","c","\n">>

\* OPEN CURSOR c FOR\n
LnOpenCursor == <<"O","P","E","N"," ","C","U","R","S","O","R"," ","c"," ","F","O","R","\n">>

\* SELECT * FROM t881.\n
LnSelect == <<"S","E","L","E","C","T"," ","*"," ","F","R","O","M"," ","t","8","8","1",".","\n">>

\* UPDATE T881T SET x.\n
LnUpdate == <<"U","P","D","A","T","E"," ","T","8","8","1","T"," ","S","E","T"," ","x",".","\n">>

SourceLines == {LnComment, LnOpenString, LnInlineComment, LnOpenCursor, LnSelect, LnUpdate}

InitLines == InitWith(Texts(SourceLines, MaxLines))

NextLines == ScanRuleSingle

SpecLines == InitLines /\ [][NextLines]_vars

(***************************************************************************)
(* Batch requests: up to MaxUnits units of two programs, with code that    *)
(* yields no finding, one finding or two                                   *)
(***************************************************************************)
MaxUnits == 3

\* x = 1.
CodeNoStatement == <<"x"," ","="," ","1",".">>

\* SELECT * FROM t881.
CodeOneRead == <<"S","E","L","E","C","T"," ","*"," ","F","R","O","M"," ","t","8","8","1",".">>

\* UPDATE t882g. DELETE FROM T881T.
CodeTwoWrites == <<"U","P","D","A","T","E"," ","t","8","8","2","g","."," ","D","E","L","E","T","E"," ","F","R","O","M"," ","T","8","8","1","T",".">>

BatchCodes == {CodeNoStatement, CodeOneRead, CodeTwoWrites}

BatchUnits == {MkUnit(p, c) : p \in {"P1", "P2"}, c \in BatchCodes}

RECURSIVE UnitSeqs(_)
\* the sequences of at most n units
UnitSeqs(n) ==
  IF n = 0 THEN {<<>>}
  ELSE LET shorter == UnitSeqs(n - 1)
       IN  shorter \cup {Append(us, u) : us \in shorter, u \in BatchUnits}

InitBatch ==
  /\ unit \in {MkUnit("P1", c) : c \in BatchCodes}
  /\ units \in UnitSeqs(MaxUnits)
  /\ single = <<>>
  /\ batch = <<>>
  /\ src = <<>>
  /\ src2 = <<>>
  /\ matches = <<>>
  /\ called = {}

NextBatch == ScanRuleArray \/ ScanRuleSingle

SpecBatch == InitBatch /\ [][NextBatch]_vars

(***************************************************************************)
(* Units made of statement heads, a table reference, and the characters    *)
(* that open and close string literals and comments                        *)
(***************************************************************************)
MaxPieces == 5

\* SELECT * FROM 
PcSelectFrom == <<"S","E","L","E","C","T"," ","*"," ","F","R","O","M"," ">>

\* UPDATE 
PcUpdate == <<"U","P","D","A","T","E"," ">>

\* T881t. 
PcTable == <<"T","8","8","1","t","."," ">>

\* '
PcQuote == <<"'">>

\* "
PcInlineMarker == <<"\"">>

\* *
PcLineMarker == <<"*">>

\* \n
PcNewline == <<"\n">>

MaskPieces ==
  {PcSelectFrom, PcUpdate, PcTable, PcQuote, PcInlineMarker, PcLineMarker, PcNewline}

InitMasked == InitWith(Texts(MaskPieces, MaxPieces))

NextMasked == ScanRuleSingle

SpecMasked == InitMasked /\ [][NextMasked]_vars

(***************************************************************************)
(* Units made of statements of the three classes, terminated or not        *)
(***************************************************************************)
MaxStmts == 5

\* OPEN CURSOR c FOR 
StOpenCursor == <<"O","P","E","N"," ","C","U","R","S","O","R"," ","c"," ","F","O","R"," ">>

\* SELECT * FROM t881 
StSelect == <<"S","E","L","E","C","T"," ","*"," ","F","R","O","M"," ","t","8","8","1"," ">>

\* JOIN T881 
StJoin == <<"J","O","I","N"," ","T","8","8","1"," ">>

\* UPDATE t881t 
StUpdate == <<"U","P","D","A","T","E"," ","t","8","8","1","t"," ">>

\* DELETE t882g
StDelete == <<"D","E","L","E","T","E"," ","t","8","8","2","g">>

\* . 
StEnd == <<"."," ">>

StmtPieces == {StOpenCursor, StSelect, StJoin, StUpdate, StDelete, StEnd}

InitStmts == InitWith(Texts(StmtPieces, MaxStmts))

NextStmts == ScanRuleSingle

SpecStmts == InitStmts /\ [][NextStmts]_vars

(***************************************************************************)
(* Units of one statement: a head of any class, a table name in any letter *)
(* case, at most MaxSuffix characters after it, and the terminator         *)
(***************************************************************************)
MaxSuffix == 2

\* SELECT * FROM 
HdSelect == <<"S","E","L","E","C","T"," ","*"," ","F","R","O","M"," ">>

\* SELECT * FROM a JOIN 
HdJoin == <<"S","E","L","E","C","T"," ","*"," ","F","R","O","M"," ","a"," ","J","O","I","N"," ">>

\* OPEN CURSOR c FOR SELECT * FROM 
HdOpenCursor == <<"O","P","E","N"," ","C","U","R","S","O","R"," ","c"," ","F","O","R"," ","S","E","L","E","C","T"," ","*"," ","F","R","O","M"," ">>

\* INSERT 
HdInsert == <<"I","N","S","E","R","T"," ">>

\* update 
HdUpdate == <<"u","p","d","a","t","e"," ">>

\* MODIFY 
HdModify == <<"M","O","D","I","F","Y"," ">>

\* DELETE 
HdDelete == <<"D","E","L","E","T","E"," ">>

\* Delete From 
HdDeleteFrom == <<"D","e","l","e","t","e"," ","F","r","o","m"," ">>

Heads ==
  {HdSelect, HdJoin, HdOpenCursor, HdInsert, HdUpdate, HdModify, HdDelete, HdDeleteFrom}

\* the spellings of a lower-case name n in every letter case
RECURSIVE CaseVariants(_)
CaseVariants(n) ==
  IF n = <<>> THEN {<<>>}
  ELSE {<<c>> \o v : c \in {Lower(Head(n)), Upper(Head(n))}, v \in CaseVariants(Tail(n))}

TableSpellings == UNION {CaseVariants(tb) : tb \in TARGET_TABLES}

SuffixChars == { <<"t">>, <<"X">>, <<"1">>, <<" ">>, <<")">> }

OperandCodes ==
  {h \o n \o x \o <<".">> :
     h \in Heads, n \in TableSpellings, x \in Texts(SuffixChars, MaxSuffix)}

InitOperand == InitWith(OperandCodes)

NextOperand == ScanRuleSingle

SpecOperand == InitOperand /\ [][NextOperand]_vars

(***************************************************************************)
(* What the properties speak of                                            *)
(***************************************************************************)
\* the unit's code as sent
raw == unit.code

Sanitized == "sanitize" \in called

Scanned == "single" \in called

\* the findings of the POST /remediate response
Findings == IF Scanned THEN single.rule628_findings ELSE <<>>

\* 1-based line of offset off in the text as sent: newlines before it, plus one
RawLine(off) == Cardinality({i \in 1..off : raw[i] = "\n"}) + 1

\* the offsets at which text t holds a newline
NewlineOffsets(t) == {i \in 1..Len(t) : t[i] = "\n"}

(***************************************************************************)
(* C2  Shape preservation: the sanitized text has the length of the input  *)
(* and a newline at exactly the offsets where the input has one.           *)
(***************************************************************************)
C2_ShapePreserved ==
  Sanitized =>
    /\ Len(src) = Len(raw)
    /\ NewlineOffsets(src) = NewlineOffsets(raw)

(***************************************************************************)
(* C7  Idempotent sanitization: sanitizing sanitized text changes nothing. *)
(***************************************************************************)
C7_Idempotent ==
  "resanitize" \in called => src2 = src

(***************************************************************************)
(* C1  Line-number correctness: every finding's line is one plus the       *)
(* number of newlines of the raw code before the start of its statement.   *)
(***************************************************************************)
C1_LineIsRawLine ==
  Scanned =>
    \A i \in 1..Len(Findings) : Findings[i].line = RawLine(matches[i].s0)

(***************************************************************************)
(* C10  Independent passes: a cursor statement OPEN CURSOR .. SELECT ..    *)
(* FROM <target> .. . yields, for the one table reference, a DirectRead    *)
(* finding of the SELECT pass on the line of SELECT and then a DirectRead  *)
(* finding of the OPEN CURSOR pass on the line of OPEN.                    *)
(***************************************************************************)
\* a SELECT keyword stands in the sanitized text between offsets a and b
SelectBetween(a, b) ==
  \E k \in (a + 1)..(b - 1) :
    WordBoundary(src, k) /\ LitAt(src, k, kwSELECT) /\ WordBoundary(src, k + 6)

C10_CursorStatementFoundTwice ==
  Scanned =>
    \A i \in 1..Len(matches) :
      (matches[i].cls = "OPEN CURSOR" /\ SelectBetween(matches[i].s0, matches[i].tstart)) =>
        \E j \in 1..(i - 1) :
          /\ matches[j].cls = "SELECT"
          /\ matches[j].tstart = matches[i].tstart
          /\ matches[j].s0 > matches[i].s0
          /\ Findings[j].issue_type = "DirectRead"
          /\ Findings[i].issue_type = "DirectRead"
          /\ Findings[j].line = RawLine(matches[j].s0)
          /\ Findings[i].line = RawLine(matches[i].s0)

(***************************************************************************)
(* C4  Batch omission asymmetry: the batch response holds, in input order, *)
(* exactly the results of the units that have findings; the single-unit    *)
(* response always holds the unit's fields and rule628_findings.           *)
(***************************************************************************)
\* the input positions of the units whose scan yields a finding
UnitsWithFindings ==
  {i \in 1..Len(units) : ScanMatches(rm_strings_and_comments(units[i].code)) # <<>>}

\* the k-th smallest element of a set of numbers
Kth(S, k) == CHOOSE i \in S : Cardinality({j \in S : j < i}) = k - 1

C4_BatchOmitsEmptySingleKeeps ==
  /\ "batch" \in called =>
       /\ Len(batch) = Cardinality(UnitsWithFindings)
       /\ \A k \in 1..Len(batch) :
            LET u == units[Kth(UnitsWithFindings, k)]
            IN  /\ \A f \in DOMAIN u : batch[k][f] = u[f]
                /\ batch[k].rule628_findings = scan_unit(u).rule628_findings
                /\ batch[k].rule628_findings # <<>>
  /\ Scanned =>
       /\ DOMAIN single = DOMAIN unit \cup {"rule628_findings"}
       /\ \A f \in DOMAIN unit : single[f] = unit[f]
       /\ Len(single.rule628_findings) = Len(matches)

\* a batch that kept one unit and dropped an earlier one, and a single-unit
\* response with no finding
C4_Witness ==
  /\ "batch" \in called
  /\ Len(units) = 3
  /\ Len(batch) = 1
  /\ batch[1].pgm_name = units[3].pgm_name
  /\ units[3].pgm_name # units[1].pgm_name
  /\ Scanned
  /\ single.rule628_findings = <<>>

(***************************************************************************)
(* C3  Suppression: when every occurrence of a target table name in the    *)
(* raw code lies inside a string literal, after an inline-comment marker   *)
(* that is outside a literal, or on a line that starts with "*", the       *)
(* findings are empty.                                                     *)
(***************************************************************************)
\* 1-based index of the first character of the line that holds index j
LineStart(j) == MaxOf({1} \cup {i + 1 : i \in {x \in 1..(j - 1) : IsLineBreak(raw[x])}})

\* the quotes of raw at indices a..(b - 1)
QuotesIn(a, b) == Cardinality({i \in a..(b - 1) : raw[i] = "'"})

\* index j of raw is on a "*" line, inside a literal that was opened on its
\* line, or after an inline-comment marker that stands outside a literal
MaskedOnLine(ls, j) ==
  \/ raw[ls] = "*"
  \/ QuotesIn(ls, j) % 2 = 1
  \/ \E p \in ls..(j - 1) : raw[p] = "\"" /\ QuotesIn(ls, p) % 2 = 0

Masked(j) == MaskedOnLine(LineStart(j), j)

\* a target table name, in any letter case, stands at offset k of raw
NameAt(k) == \E tb \in TARGET_TABLES : LitAt(raw, k, tb)

NamesOnlyMasked == \A k \in 0..(Len(raw) - 1) : NameAt(k) => Masked(k + 1)

C3_Suppressed ==
  (Scanned /\ NamesOnlyMasked) => Findings = <<>>

\* a unit whose only table references are masked and which, scanned as sent,
\* would have yielded a finding
C3_Witness ==
  /\ Scanned
  /\ NamesOnlyMasked
  /\ \E k \in 0..(Len(raw) - 1) : NameAt(k)
  /\ ScanMatches(raw) # <<>>
  /\ Findings = <<>>

(***************************************************************************)
(* C5  Finding order without deduplication: the findings are those of the  *)
(* SELECT pass, then of the OPEN CURSOR pass, then of the write pass;      *)
(* within a pass they ascend by span start and, within a span, by the      *)
(* offset of the table; every FROM/JOIN target of a span has its own       *)
(* finding.                                                                *)
(***************************************************************************)
ClassRank(cls) ==
  CASE cls = "SELECT" -> 1 [] cls = "OPEN CURSOR" -> 2 [] cls = "WRITE" -> 3

\* the offsets between a and b at which a FROM/JOIN target stands in the
\* sanitized text
TargetsBetween(a, b) ==
  {k \in a..(b - 1) : FROM_OR_JOIN_TARGET_RE(Slice(src, a, b), k - a).end >= 0}

C5_OrderedNoDedup ==
  Scanned =>
    /\ Len(Findings) = Len(matches)
    /\ \A i \in 1..Len(matches) :
         /\ Findings[i].issue_type =
              (IF matches[i].cls = "WRITE" THEN "DisallowedWrite" ELSE "DirectRead")
         /\ Findings[i].message = MessageFor(matches[i].cls, matches[i].tb)
    /\ \A i, j \in 1..Len(matches) :
         i < j =>
           \/ ClassRank(matches[i].cls) < ClassRank(matches[j].cls)
           \/ /\ matches[i].cls = matches[j].cls
              /\ \/ matches[i].s0 < matches[j].s0
                 \/ /\ matches[i].s0 = matches[j].s0
                    /\ matches[i].tstart < matches[j].tstart
    /\ \A i \in 1..Len(matches) :
         matches[i].cls # "WRITE" =>
           Cardinality({j \in 1..Len(matches) :
                          matches[j].cls = matches[i].cls /\ matches[j].s0 = matches[i].s0})
             = Cardinality(TargetsBetween(matches[i].s0, matches[i].s1))

\* findings of all three classes, and a table that one statement names twice
C5_Witness ==
  /\ Scanned
  /\ \E i, j, k \in 1..Len(matches) :
       /\ i < j /\ j < k
       /\ matches[i].cls = "SELECT"
       /\ matches[j].cls = "OPEN CURSOR"
       /\ matches[k].cls = "WRITE"
  /\ \E i \in 1..(Len(matches) - 1) :
       /\ matches[i].cls = matches[i + 1].cls
       /\ matches[i].s0 = matches[i + 1].s0
       /\ matches[i].tb = matches[i + 1].tb
       /\ matches[i].tstart < matches[i + 1].tstart

(***************************************************************************)
(* C6  Case-insensitivity and prefix boundary: a table reference in any    *)
(* letter case is found and reported under its lower-case name, and a      *)
(* reference to t881t is never reported as t881, in reads and writes.      *)
(***************************************************************************)
\* raw starts with the statement head h
StartsWith(h) == Len(h) <= Len(raw) /\ SubSeq(raw, 1, Len(h)) = h

\* offset e of raw holds no word character
EndsNameAt(e) == e >= Len(raw) \/ ~IsWord(raw[e + 1])

C6_AnyCaseNeverPrefix ==
  Scanned =>
    /\ \A i \in 1..Len(matches) :
         /\ matches[i].tb \in TARGET_TABLES
         /\ matches[i].tb = canon(Slice(raw, matches[i].tstart, matches[i].tend))
         /\ Findings[i].message.table = UpperText(matches[i].tb)
         /\ Findings[i].suggestion.table = UpperText(matches[i].tb)
         /\ ~(/\ matches[i].tb = <<"t","8","8","1">>
              /\ matches[i].tend < Len(raw)
              /\ Lower(raw[matches[i].tend + 1]) = "t")
    /\ \A h \in Heads, tb \in TARGET_TABLES :
         (StartsWith(h) /\ LitAt(raw, Len(h), tb) /\ EndsNameAt(Len(h) + Len(tb))) =>
           \E i \in 1..Len(matches) :
             matches[i].tstart = Len(h) /\ matches[i].tb = tb

\* a write to t881t in mixed case, reported as T881T
C6_Witness ==
  /\ Scanned
  /\ StartsWith(HdUpdate)
  /\ Slice(raw, Len(HdUpdate), Len(HdUpdate) + 5) = <<"T","8","8","1","t">>
  /\ Len(matches) = 1
  /\ matches[1].tb = <<"t","8","8","1","t">>
  /\ Findings[1].message.table = <<"T","8","8","1","T">>

(***************************************************************************)
(* C8  Unterminated statements are ignored: every finding's span ends with *)
(* a "." of the sanitized text, so a statement with no "." after it has no *)
(* finding, and the text after the last "." changes nothing in the         *)
(* findings of the statements before it.                                   *)
(***************************************************************************)
\* the offset after the last "." of the sanitized text, 0 when it has none
AfterLastDot == MaxOf({0} \cup {i \in 1..Len(src) : src[i] = "."})

C8_UnterminatedIgnored ==
  Scanned =>
    /\ \A i \in 1..Len(matches) :
         /\ matches[i].s1 <= Len(src)
         /\ src[matches[i].s1] = "."
         /\ matches[i].s0 < matches[i].s1
         /\ \A j \in (matches[i].s0 + 1)..(matches[i].s1 - 1) : src[j] # "."
    /\ DOMAIN single = DOMAIN unit \cup {"rule628_findings"}
    /\ matches = ScanMatches(Slice(src, 0, AfterLastDot))

\* a terminated statement with a finding, followed by a statement that would
\* have a finding were it terminated
C8_Witness ==
  /\ Scanned
  /\ Findings # <<>>
  /\ AfterLastDot < Len(src)
  /\ Len(ScanMatches(src \o <<".">>)) > Len(matches)

(***************************************************************************)
(* C9  Whole-identifier matching: in every class, the table of a finding   *)
(* is a complete identifier, so no word character follows it.              *)
(***************************************************************************)
C9_WholeIdentifier ==
  Scanned =>
    \A i \in 1..Len(matches) :
      ~(matches[i].tend < Len(src) /\ IsWord(src[matches[i].tend + 1]))

====
